---- MODULE Spec2Model ----
(***************************************************************************)
(* Model of scrape_tools.py: the link extractor, the name/company          *)
(* heuristic, the batch orchestrator scrape_all_tools and the exporters.   *)
(*                                                                         *)
(* Text is modelled as a sequence of tokens.  A token is either a single   *)
(* character or an indivisible literal the code looks for ("http://",      *)
(* "www.", the repository path, "linkedin.com", ...).  No token is a       *)
(* prefix of another and no concatenation of other tokens forms a literal, *)
(* so substring tests become token membership and Python's code-point      *)
(* ordering becomes the token-wise ordering given by Rank.                 *)
(***************************************************************************)
EXTENDS Integers, Sequences, FiniteSets, TLC

(* ------------------------------ bounds -------------------------------- *)
MaxChunks == 4
MaxLinks == 3
MaxLimit == 3
MaxNameLen == 3

(* ------------------------------ tokens -------------------------------- *)
HTTP == "http://"
HTTPS == "https://"
REPO == "github.com/yousefebrahimi0/1000-AI-collection-tools"
WWW == "www."
SP == " "
LP == "("
RP == ")"
SLASH == "/"
ENDASH == "en-dash"
EMDASH == "em-dash"
BULLET == "bullet"

Schemes == {HTTP, HTTPS}

\* Order of the tokens under Python's code-point comparison (decided by the
\* first character in which two tokens differ).
Rank(t) ==
    CASE t = SP     -> 32
      [] t = LP     -> 40
      [] t = RP     -> 41
      [] t = SLASH  -> 47
      [] t = "a"    -> 97
      [] t = "b"    -> 98
      [] t = "e1@acme.io" -> 101
      [] t = "e2@acme.io" -> 102
      [] t = REPO   -> 103
      [] t = HTTP   -> 104
      [] t = HTTPS  -> 105
      [] t = WWW    -> 119
      [] OTHER      -> 200

(* --------------------------- string helpers --------------------------- *)
\* Python `tok in s` for an indivisible token.
HasTok(s, tok) == \E i \in 1..Len(s) : s[i] = tok

Range(s) == {s[i] : i \in 1..Len(s)}

\* Python str `<` : lexicographic by code point, a proper prefix is smaller.
RECURSIVE StrLess(_, _)
StrLess(a, b) ==
    IF b = <<>> THEN FALSE
    ELSE IF a = <<>> THEN TRUE
    ELSE IF Head(a) = Head(b) THEN StrLess(Tail(a), Tail(b))
    ELSE Rank(Head(a)) < Rank(Head(b))

\* Python sorted() over a collection of distinct strings.
RECURSIVE sorted(_)
sorted(S) ==
    IF S = {} THEN <<>>
    ELSE LET m == CHOOSE x \in S : \A y \in S \ {x} : StrLess(x, y)
         IN  <<m>> \o sorted(S \ {m})

\* Python str.strip(): leading and trailing whitespace removed.
RECURSIVE LStrip(_)
LStrip(s) == IF s # <<>> /\ Head(s) = SP THEN LStrip(Tail(s)) ELSE s

RECURSIVE RStrip(_)
RStrip(s) ==
    IF s # <<>> /\ s[Len(s)] = SP THEN RStrip(SubSeq(s, 1, Len(s) - 1)) ELSE s

strip(s) == RStrip(LStrip(s))

\* Python s.split(sep) for a one-token separator: always at least one piece.
RECURSIVE SplitAcc(_, _, _)
SplitAcc(s, sep, cur) ==
    IF s = <<>> THEN <<cur>>
    ELSE IF Head(s) = sep THEN <<cur>> \o SplitAcc(Tail(s), sep, <<>>)
    ELSE SplitAcc(Tail(s), sep, Append(cur, Head(s)))

split(s, sep) == SplitAcc(s, sep, <<>>)

\* Python str.replace(tok, ""): every occurrence of the token removed.
RECURSIVE RemoveAll(_, _)
RemoveAll(s, tok) ==
    IF s = <<>> THEN <<>>
    ELSE IF Head(s) = tok THEN RemoveAll(Tail(s), tok)
    ELSE <<Head(s)>> \o RemoveAll(Tail(s), tok)

RECURSIVE Concat(_)
Concat(ss) == IF ss = <<>> THEN <<>> ELSE Head(ss) \o Concat(Tail(ss))

\* All sequences over S of length at most n.
RECURSIVE SeqsUpTo(_, _)
SeqsUpTo(S, n) ==
    IF n = 0 THEN {<<>>}
    ELSE LET shorter == SeqsUpTo(S, n - 1)
         IN  shorter \cup {Append(s, x) : s \in shorter, x \in S}

(* --------------------------- Link Extractor --------------------------- *)
\* A character of the class [^\s)] .
UrlChar(t) == t # SP /\ t # RP

\* End of the greedy run [^\s)]* that starts at position j (j-1 if empty).
RECURSIVE RunEnd(_, _)
RunEnd(s, j) ==
    IF j <= Len(s) /\ UrlChar(s[j]) THEN RunEnd(s, j + 1) ELSE j - 1

\* re.match of \((https?://[^\s)]+)\) at position i: 0 if there is no match,
\* otherwise the position of the closing parenthesis.
MatchEnd(s, i) ==
    IF i + 3 <= Len(s) /\ s[i] = LP /\ s[i + 1] \in Schemes
    THEN LET e == RunEnd(s, i + 2)
         IN  IF e >= i + 2 /\ e + 1 <= Len(s) /\ s[e + 1] = RP
             THEN e + 1 ELSE 0
    ELSE 0

\* set(url_pattern.findall(text)): leftmost, non-overlapping matches.
RECURSIVE FindAllFrom(_, _)
FindAllFrom(s, i) ==
    IF i > Len(s) THEN {}
    ELSE LET e == MatchEnd(s, i)
         IN  IF e = 0 THEN FindAllFrom(s, i + 1)
             ELSE {SubSeq(s, i + 1, e - 1)} \cup FindAllFrom(s, e + 1)

url_pattern_findall(markdown_text) == FindAllFrom(markdown_text, 1)

extract_tool_links_nofilter(markdown_text) ==
    sorted(url_pattern_findall(markdown_text))

extract_tool_links(markdown_text) ==
    LET urls == url_pattern_findall(markdown_text)
        filtered == {url \in urls : ~HasTok(url, REPO)}
    IN  sorted(filtered)

(* ------------------------------- HTML --------------------------------- *)
\* A fetched body is a sequence of elements, in document order; the empty
\* body "" is the empty sequence.  What BeautifulSoup exposes to the code:
\*   <title>text</title>               [tag |-> "title", text |-> ...]
\*   <meta property=key content=val>   [tag |-> "meta", key, val]
\*   <a href=val>text</a>              [tag |-> "a", key |-> "href", val, text]
\*   other character data              [tag |-> "text", text |-> ...]
Elem(tag, key, val, text) == [tag |-> tag, key |-> key, val |-> val, text |-> text]
TitleEl(text) == Elem("title", "", <<>>, text)
MetaEl(key, val) == Elem("meta", key, val, <<>>)
AnchorEl(href, text) == Elem("a", "href", href, text)
TextEl(text) == Elem("text", "", <<>>, text)

\* First in document order among the positions idxs, 0 if there is none
\* (soup.find, and the first hit of a loop over find_all).
FirstIdx(idxs) ==
    IF idxs = {} THEN 0 ELSE CHOOSE k \in idxs : \A j \in idxs : k <= j

\* soup.find_all("a", href=True), in document order.
RECURSIVE find_all_a(_)
find_all_a(html) ==
    IF html = <<>> THEN <<>>
    ELSE IF Head(html).tag = "a" /\ Head(html).key = "href"
         THEN <<Head(html)>> \o find_all_a(Tail(html))
         ELSE find_all_a(Tail(html))

(* ----------------------- guess_product_name_and_company ---------------- *)
SEPS == <<"|", ENDASH, "-", BULLET, EMDASH>>

\* [p.strip() for p in name.split(sep) if p.strip()]
RECURSIVE NonBlank(_)
NonBlank(pieces) ==
    IF pieces = <<>> THEN <<>>
    ELSE IF strip(Head(pieces)) # <<>>
         THEN <<strip(Head(pieces))>> \o NonBlank(Tail(pieces))
         ELSE NonBlank(Tail(pieces))

stripped_parts(name, sep) == NonBlank(split(name, sep))

\* The loop of lines 70-75, from the k-th separator on.
RECURSIVE first_chunk_from(_, _)
first_chunk_from(name, k) ==
    IF k > Len(SEPS) THEN name
    ELSE IF HasTok(name, SEPS[k]) /\ stripped_parts(name, SEPS[k]) # <<>>
         THEN stripped_parts(name, SEPS[k])[1]
         ELSE first_chunk_from(name, k + 1)

\* The loop of lines 77-82, from the k-th separator on.
RECURSIVE last_chunk_from(_, _)
last_chunk_from(name, k) ==
    IF k > Len(SEPS) THEN name
    ELSE IF HasTok(name, SEPS[k]) /\ stripped_parts(name, SEPS[k]) # <<>>
         THEN LET parts == stripped_parts(name, SEPS[k]) IN parts[Len(parts)]
         ELSE last_chunk_from(name, k + 1)

keep_first_chunk_reversed(name) ==
    IF \E k \in 1..Len(SEPS) : HasTok(name, SEPS[k]) /\ stripped_parts(name, SEPS[k]) # <<>>
    THEN LET k == CHOOSE k \in 1..Len(SEPS) :
                    /\ HasTok(name, SEPS[k]) /\ stripped_parts(name, SEPS[k]) # <<>>
                    /\ \A j \in (k + 1)..Len(SEPS) :
                          ~(HasTok(name, SEPS[j]) /\ stripped_parts(name, SEPS[j]) # <<>>)
         IN  stripped_parts(name, SEPS[k])[1]
    ELSE name

keep_first_chunk(name) == first_chunk_from(name, 1)
keep_last_chunk(name) == last_chunk_from(name, 1)

\* urlparse(url).netloc: what follows the scheme, up to the first "/".
RECURSIVE UpToSlash(_)
UpToSlash(s) ==
    IF s = <<>> \/ Head(s) = SLASH THEN <<>>
    ELSE <<Head(s)>> \o UpToSlash(Tail(s))

netloc(url) ==
    IF url # <<>> /\ Head(url) \in Schemes THEN UpToSlash(Tail(url)) ELSE <<>>

\* soup.title.string.strip() if soup.title and soup.title.string else ""
soup_title(html) ==
    LET k == FirstIdx({j \in 1..Len(html) : html[j].tag = "title"})
    IN  IF k = 0 THEN <<>> ELSE strip(html[k].text)

\* soup.find("meta", property=prop) and its stripped content, "" if none.
soup_meta(html, prop) ==
    LET k == FirstIdx({j \in 1..Len(html) : html[j].tag = "meta" /\ html[j].key = prop})
    IN  IF k = 0 THEN <<>> ELSE strip(html[k].val)

Or(a, b) == IF a # <<>> THEN a ELSE b

\* Lines 85-87: domain.replace("www.", "")
domain_fallback(url) == RemoveAll(netloc(url), WWW)

guess_product_name_and_company(html, url) ==
    LET title == soup_title(html)
        og_site_name == soup_meta(html, "og:site_name")
        og_title == soup_meta(html, "og:title")
        p0 == keep_first_chunk(Or(og_title, title))
        c0 == keep_last_chunk(Or(og_site_name, title))
        company_name == IF c0 = <<>> THEN domain_fallback(url) ELSE c0
        product_name == IF p0 = <<>> THEN company_name ELSE p0
    IN  [product_name |-> product_name, company_name |-> company_name]

(* ------------------- emails, social links, careers page ---------------- *)
MAILTO == "mailto:"
QMARK == "?"
EmailToks == {"e1@acme.io", "e2@acme.io"}

\* The literals a token contains as substrings (itself, unless listed).
Lits(t) ==
    CASE t = "box.com" -> {"box.com", "x.com"}
      [] t = "Careers" -> {"Careers"}
      [] OTHER         -> {t}

\* Python `lit in s` for a literal the code searches for.
HasLit(s, lit) == \E k \in 1..Len(s) : lit \in Lits(s[k])

\* Python str.lower(), token by token.
LowerTok(t) == IF t = "Careers" THEN "careers" ELSE t
lower(s) == [k \in 1..Len(s) |-> LowerTok(s[k])]

RECURSIVE UpToQMark(_)
UpToQMark(s) ==
    IF s = <<>> \/ Head(s) = QMARK THEN <<>>
    ELSE <<Head(s)>> \o UpToQMark(Tail(s))

\* href.split("mailto:", 1)[1].split("?", 1)[0] for an href starting "mailto:"
mailto_target(href) == UpToQMark(Tail(href))

\* plain_email_pattern.findall(html): every address in the raw text, whether
\* it stands in an attribute value or in character data.
plain_emails(html) ==
    {<<t>> : t \in {x \in UNION {Range(html[k].val) \cup Range(html[k].text) :
                                    k \in 1..Len(html)} : x \in EmailToks}}

extract_emails(html) ==
    LET anchors == find_all_a(html)
        from_mailto == {mailto_target(anchors[k].val) :
                           k \in {j \in 1..Len(anchors) :
                                     anchors[j].val # <<>> /\ Head(anchors[j].val) = MAILTO}}
    IN  sorted(from_mailto \cup plain_emails(html))

\* "; ".join(emails)
RECURSIVE join(_)
join(ss) ==
    IF ss = <<>> THEN <<>>
    ELSE IF Len(ss) = 1 THEN ss[1]
    ELSE ss[1] \o <<";", SP>> \o join(Tail(ss))

extract_social_links(html) ==
    LET anchors == find_all_a(html)
        li == FirstIdx({j \in 1..Len(anchors) : HasLit(anchors[j].val, "linkedin.com")})
        tw == FirstIdx({j \in 1..Len(anchors) :
                           \/ HasLit(anchors[j].val, "twitter.com")
                           \/ HasLit(anchors[j].val, "x.com")})
    IN  [linkedin_url |-> IF li = 0 THEN <<>> ELSE anchors[li].val,
         twitter_url  |-> IF tw = 0 THEN <<>> ELSE anchors[tw].val]

careers_keywords == {"careers", "jobs", "join-us", "joinus", "work-with-us", "work with us"}

\* The last position of "/" in s, 0 if none.
LastSlash(s) ==
    IF HasTok(s, SLASH)
    THEN CHOOSE k \in 1..Len(s) : s[k] = SLASH /\ \A j \in (k + 1)..Len(s) : s[j] # SLASH
    ELSE 0

\* urljoin(base, href) for the href shapes of the model: absolute, empty,
\* root-relative, and relative to the directory of the base path.
urljoin(base, href) ==
    LET origin == <<Head(base)>> \o netloc(base)
        path == SubSeq(base, Len(origin) + 1, Len(base))
    IN  IF href = <<>> THEN base
        ELSE IF Head(href) \in Schemes \/ Head(href) = MAILTO THEN href
        ELSE IF Head(href) = SLASH THEN origin \o href
        ELSE origin \o (IF LastSlash(path) = 0 THEN <<SLASH>>
                        ELSE SubSeq(path, 1, LastSlash(path))) \o href

find_careers_page(html, base_url) ==
    LET anchors == find_all_a(html)
        k == FirstIdx({j \in 1..Len(anchors) :
                \/ \E kw \in careers_keywords : HasLit(lower(anchors[j].val), kw)
                \/ \E kw \in careers_keywords : HasLit(strip(lower(anchors[j].text)), kw)})
    IN  IF k = 0 THEN <<>> ELSE urljoin(base_url, anchors[k].val)

(* --------------------------- ToolRecord ------------------------------- *)
\* Lines 155-163: the record appended when the fetch gave nothing.
placeholder_record(url) ==
    [product_name |-> <<>>, company |-> <<>>, email |-> <<>>, linkedin_url |-> <<>>,
     twitter_url |-> <<>>, careers_page |-> <<>>, tool_url |-> url]

\* Lines 166-179: the record assembled from the four heuristics.
assembled_record(html, url) ==
    LET names == guess_product_name_and_company(html, url)
        social == extract_social_links(html)
    IN  [product_name |-> names.product_name,
         company      |-> names.company_name,
         email        |-> join(extract_emails(html)),
         linkedin_url |-> social.linkedin_url,
         twitter_url  |-> social.twitter_url,
         careers_page |-> find_careers_page(html, url),
         tool_url     |-> url]

(* ------------------------- inputs of the run --------------------------- *)
\* Optional values: None is <<>>, a present value v is <<v>>.
None == <<>>
Some(v) == <<v>>

UrlA == <<HTTPS, WWW, "a">>
UrlB == <<HTTP, "b", SLASH, "a">>
UrlC == <<HTTP, "a", WWW, "b">>
UrlRepo == <<HTTPS, REPO, SLASH, "a">>

Link(url) == <<LP>> \o url \o <<RP>>

\* Pieces the README is made of: markdown links and plain text.
LinkChunks == {Link(UrlA), Link(UrlB), Link(UrlC), Link(UrlRepo), <<SP, "a", SP>>}

ReadmeDocs == {Concat(cs) : cs \in SeqsUpTo(LinkChunks, MaxLinks)}

Limits == {None} \cup {Some(n) : n \in 0..MaxLimit}

\* Bodies a tool site may answer with: the empty body, a page with title,
\* og tags and links, and a page with nothing the heuristics recognise.
EmptyBody == <<>>

RichPage ==
    << TitleEl(<<SP, "a", SP, EMDASH, SP, "b", SP>>),
       MetaEl("og:title", <<"a", "|", "b">>),
       AnchorEl(<<MAILTO, "e2@acme.io", QMARK, "a">>, <<"a">>),
       AnchorEl(<<HTTPS, "linkedin.com", SLASH, "a">>, <<>>),
       AnchorEl(<<HTTPS, "box.com", SLASH, "a">>, <<>>),
       AnchorEl(<<SLASH, "jobs">>, <<"b">>),
       TextEl(<<"e1@acme.io", SP, "e2@acme.io">>) >>

BarePage == << TextEl(<<"a", SP, "b">>), AnchorEl(<<"b">>, <<SP, "Careers", SP>>) >>

Pages == {EmptyBody, RichPage, BarePage}

(* ------------------------------- state -------------------------------- *)
VARIABLES
    pc,          \* position of the program
    limit,       \* argument of scrape_all_tools
    md,          \* text returned by get_readme_markdown
    tool_urls,   \* the (possibly truncated) sorted URL list
    i,           \* number of URLs whose iteration has started
    html,        \* result of the last fetch_html: None or Some(body)
    records,     \* the accumulated ToolRecords
    responses,   \* what the network answered for each URL so far
    events,      \* the requests made and the sleeps taken, in order
    csv_file,    \* tools_data.csv: None or Some(content) once written
    json_file,   \* tools_data.json: None or Some(content) once written
    input,       \* argument of a function applied on its own
    output       \* its result

vars == <<pc, limit, md, tool_urls, i, html, records, responses, events,
          csv_file, json_file, input, output>>

run_vars == <<limit, md, tool_urls, i, html, records, responses, events,
              csv_file, json_file>>

Idle ==
    /\ limit = None /\ md = <<>> /\ tool_urls = <<>> /\ i = 0 /\ html = None
    /\ records = <<>> /\ responses = <<>> /\ events = <<>>
    /\ csv_file = None /\ json_file = None

\* Python truthiness of the optional limit and of the optional html text.
Truthy_limit(l) == l # None /\ l[1] # 0
Truthy_html(h) == h # None /\ h[1] # <<>>

Min(a, b) == IF a <= b THEN a ELSE b

\* Lines 146-147: if limit: tool_urls = tool_urls[:limit]
truncate(urls, l) ==
    IF Truthy_limit(l) THEN SubSeq(urls, 1, Min(l[1], Len(urls))) ELSE urls

(* ------------------------- scrape_all_tools --------------------------- *)
Init ==
    /\ pc = "start"
    /\ limit \in Limits
    /\ md = <<>> /\ tool_urls = <<>> /\ i = 0 /\ html = None
    /\ records = <<>> /\ responses = <<>> /\ events = <<>>
    /\ csv_file = None /\ json_file = None
    /\ input = <<>> /\ output = <<>>

\* Lines 142-149: the README is fetched, the links extracted and truncated.
GetReadmeOk ==
    /\ pc = "start"
    /\ \E text \in ReadmeDocs :
          /\ md' = text
          /\ tool_urls' = truncate(extract_tool_links(text), limit)
    /\ records' = <<>>
    /\ events' = Append(events, "readme")
    /\ pc' = "fetch"
    /\ UNCHANGED <<limit, i, html, responses, csv_file, json_file, input, output>>

GetReadmeFail_swallowed ==
    /\ pc = "start"
    /\ events' = Append(events, "readme_failed")
    /\ pc' = "fetch"
    /\ UNCHANGED <<limit, md, tool_urls, i, html, records, responses,
                   csv_file, json_file, input, output>>

\* Lines 18-19 raise; nothing catches it, the program ends.
GetReadmeFail ==
    /\ pc = "start"
    /\ events' = Append(events, "readme_failed")
    /\ pc' = "aborted"
    /\ UNCHANGED <<limit, md, tool_urls, i, html, records, responses,
                   csv_file, json_file, input, output>>

\* Lines 151-153 with fetch_html returning resp.text.
FetchOk ==
    /\ pc = "fetch" /\ i < Len(tool_urls)
    /\ \E body \in Pages :
          /\ html' = Some(body)
          /\ responses' = Append(responses, Some(body))
    /\ i' = i + 1
    /\ events' = Append(events, "fetch")
    /\ pc' = "branch"
    /\ UNCHANGED <<limit, md, tool_urls, records, csv_file, json_file, input, output>>

FetchFail_uncaught ==
    /\ pc = "fetch" /\ i < Len(tool_urls)
    /\ responses' = Append(responses, None)
    /\ i' = i + 1
    /\ events' = Append(events, "fetch")
    /\ pc' = "aborted"
    /\ UNCHANGED <<limit, md, tool_urls, html, records, csv_file, json_file, input, output>>

\* Lines 151-153 with fetch_html catching an exception and returning None.
FetchFail ==
    /\ pc = "fetch" /\ i < Len(tool_urls)
    /\ html' = None
    /\ responses' = Append(responses, None)
    /\ i' = i + 1
    /\ events' = Append(events, "fetch")
    /\ pc' = "branch"
    /\ UNCHANGED <<limit, md, tool_urls, records, csv_file, json_file, input, output>>

AppendPlaceholder_no_append ==
    /\ pc = "branch" /\ ~Truthy_html(html)
    /\ pc' = "fetch"
    /\ UNCHANGED <<run_vars, input, output>>

\* Lines 154-164: if not html: append the placeholder and continue.
AppendPlaceholder ==
    /\ pc = "branch" /\ ~Truthy_html(html)
    /\ records' = Append(records, placeholder_record(tool_urls[i]))
    /\ pc' = "fetch"
    /\ UNCHANGED <<limit, md, tool_urls, i, html, responses, events,
                   csv_file, json_file, input, output>>

\* Lines 166-181: the heuristics run and their record is appended.
AppendRecord ==
    /\ pc = "branch" /\ Truthy_html(html)
    /\ records' = Append(records, assembled_record(html[1], tool_urls[i]))
    /\ pc' = "sleep"
    /\ UNCHANGED <<limit, md, tool_urls, i, html, responses, events,
                   csv_file, json_file, input, output>>

\* Line 182: time.sleep(delay)
Sleep ==
    /\ pc = "sleep"
    /\ events' = Append(events, "sleep")
    /\ pc' = "fetch"
    /\ UNCHANGED <<limit, md, tool_urls, i, html, records, responses,
                   csv_file, json_file, input, output>>

\* Line 184: the loop is exhausted, records is returned to __main__.
Return ==
    /\ pc = "fetch" /\ i = Len(tool_urls)
    /\ pc' = "save_csv"
    /\ UNCHANGED <<run_vars, input, output>>

(* ------------------------------ exporters ----------------------------- *)
fieldnames == <<"product_name", "company", "email", "linkedin_url",
                "twitter_url", "careers_page", "tool_url">>

\* writer.writerow(row): the values of the row in the order of fieldnames.
csv_row(row) == [k \in 1..Len(fieldnames) |-> row[fieldnames[k]]]

csv_content(recs) ==
    [header |-> fieldnames, rows |-> [k \in 1..Len(recs) |-> csv_row(recs[k])]]

save_to_csv_always(recs, file) == Some(csv_content(recs))

\* Lines 187-205: nothing is opened when records is empty.
save_to_csv(recs, file) == IF recs = <<>> THEN file ELSE Some(csv_content(recs))

\* Lines 208-210.

save_to_json(recs, file) == Some(recs)

SaveCsv ==
    /\ pc = "save_csv"
    /\ csv_file' = save_to_csv(records, csv_file)
    /\ pc' = "save_json"
    /\ UNCHANGED <<limit, md, tool_urls, i, html, records, responses, events,
                   json_file, input, output>>

SaveJson ==
    /\ pc = "save_json"
    /\ json_file' = save_to_json(records, json_file)
    /\ pc' = "done"
    /\ UNCHANGED <<limit, md, tool_urls, i, html, records, responses, events,
                   csv_file, input, output>>

Next ==
    \/ GetReadmeOk \/ GetReadmeFail
    \/ FetchOk \/ FetchFail
    \/ AppendPlaceholder \/ AppendRecord \/ Sleep
    \/ Return \/ SaveCsv \/ SaveJson

Spec == Init /\ [][Next]_vars

(* ===================== properties of the whole run ==================== *)
Finished == pc \in {"save_csv", "save_json", "done"}

EmptyStr == <<>>

\* The record the data model prescribes for a failed fetch, field by field.
IsEmptyRecordFor(r, url) ==
    /\ r.product_name = EmptyStr /\ r.company = EmptyStr /\ r.email = EmptyStr
    /\ r.linkedin_url = EmptyStr /\ r.twitter_url = EmptyStr
    /\ r.careers_page = EmptyStr /\ r.tool_url = url

IsPrefix(a, b) == Len(a) <= Len(b) /\ SubSeq(b, 1, Len(a)) = a

C1_State ==
    /\ Len(records) <= Len(tool_urls)
    /\ \A k \in 1..Len(records) : records[k].tool_url = tool_urls[k]
    /\ Finished => Len(records) = Len(tool_urls)

\* C1: when scrape_all_tools returns there is exactly one record per URL of
\* the (truncated) sorted list, the k-th record carrying the k-th URL, and
\* during the run the records only grow at the end: every step leaves the
\* records already present in place and unchanged.
C1_OneRecordPerUrlInOrder == [](C1_State) /\ [][IsPrefix(records, records')]_vars

C1_Witness ==
    /\ pc = "done" /\ Len(records) = 3 /\ limit = None
    /\ responses[1] = None /\ responses[2] = Some(RichPage) /\ responses[3] = Some(BarePage)

\* C2: between the fetch of one URL and the fetch of the next there is
\* exactly one sleep, whether or not the first fetch succeeded: in the
\* sequence of requests and sleeps a fetch is followed by a sleep, and a
\* sleep by a fetch.
C2_SleepAfterEveryUrl ==
    \A k \in 1..(Len(events) - 1) :
        /\ events[k] = "fetch" => events[k + 1] = "sleep"
        /\ events[k] = "sleep" => events[k + 1] = "fetch"

\* C3: a failed fetch does not abort the run: its record is the all-empty
\* record carrying the original URL, the program is never aborted once a
\* tool URL has been requested, the loop always has a next step to take
\* (another URL to fetch or the return), and it is left only when every URL
\* of the list has been requested and has its record.
C3_FetchFailureIsRecoverable ==
    /\ \A k \in 1..Len(records) :
          responses[k] = None => IsEmptyRecordFor(records[k], tool_urls[k])
    /\ responses # <<>> => pc # "aborted"
    /\ pc \in {"fetch", "sleep"} => (i <= Len(tool_urls) /\ Len(records) = i)
    /\ pc = "branch" => (i \in 1..Len(tool_urls) /\ Len(records) = i - 1)
    /\ Finished => /\ Len(records) = Len(tool_urls)
                   /\ Len(responses) = Len(tool_urls)

C3_Witness ==
    /\ pc = "done" /\ Len(responses) = 3
    /\ responses[1] = None /\ responses[2] = None /\ responses[3] = Some(RichPage)
    /\ IsEmptyRecordFor(records[1], tool_urls[1])
    /\ records[3].company # EmptyStr

\* C4: when the fetch of the README fails the run aborts at once: no tool
\* URL is requested, no record exists, neither output file is written, and
\* the program stays aborted with nothing further happening.
C4_ReadmeFailureIsFatal ==
    (events # <<>> /\ events[1] = "readme_failed") =>
        /\ pc = "aborted"
        /\ Len(events) = 1 /\ responses = <<>> /\ records = <<>>
        /\ csv_file = None /\ json_file = None

C4_Witness == pc = "aborted" /\ events = <<"readme_failed">>

\* C5: every URL whose fetch succeeded, whatever the text (the empty body
\* included), gets the record assembled by the four heuristics; only a
\* failed fetch gets the all-empty record.
C5_SuccessGetsAssembledRecord ==
    \A k \in 1..Len(records) :
        /\ responses[k] # None =>
              records[k] = assembled_record(responses[k][1], tool_urls[k])
        /\ IsEmptyRecordFor(records[k], tool_urls[k]) => responses[k] = None

\* C6: with a limit L >= 0 exactly the first min(L, N) URLs of the sorted
\* list are processed, and all N when no limit is given.
C6_LimitTruncates ==
    pc \notin {"start", "aborted"} =>
        LET all == extract_tool_links(md)
        IN  /\ limit = None => tool_urls = all
            /\ limit # None => tool_urls = SubSeq(all, 1, Min(limit[1], Len(all)))
            /\ Finished /\ limit # None => Len(records) = Min(limit[1], Len(all))

\* C8: save_to_csv leaves the file alone for an empty record list and
\* save_to_json always writes; after a completed run the JSON file holds
\* the records ([] when there are none) and the CSV file exists exactly
\* when there is a record, with one row per record in processing order.
C8_ExportersOnEmptyList ==
    /\ (pc \in {"save_json", "done"} /\ records = <<>>) => csv_file = None
    /\ pc = "done" =>
          /\ json_file = Some(records)
          /\ (csv_file # None) <=> (records # <<>>)
          /\ csv_file # None =>
                /\ csv_file[1].header = fieldnames
                /\ Len(csv_file[1].rows) = Len(records)
                /\ \A k \in 1..Len(records) :
                      /\ csv_file[1].rows[k][7] = tool_urls[k]
                      /\ \A f \in 1..Len(fieldnames) :
                            csv_file[1].rows[k][f] = records[k][fieldnames[f]]

C8_Witness ==
    /\ pc = "done" /\ records = <<>> /\ events = <<"readme">>
    /\ csv_file = None /\ json_file = Some(<<>>)

(* ================== extract_tool_links applied alone ================== *)
\* Markdown texts: up to MaxChunks pieces, each a single character, a
\* scheme, the repository path, or a whole parenthesised link.
MdChunks ==
    { <<LP>>, <<RP>>, <<SP>>, <<HTTP>>, <<"a">>, <<REPO>>,
      Link(<<HTTP, "b">>), Link(<<HTTPS, "a">>), Link(<<HTTPS, REPO, SLASH, "a">>) }

MarkdownTexts == {Concat(cs) : cs \in SeqsUpTo(MdChunks, MaxChunks)}

InitLinks ==
    /\ pc = "call_extract_tool_links"
    /\ input \in MarkdownTexts
    /\ output = <<>>
    /\ Idle

CallExtractToolLinks ==
    /\ pc = "call_extract_tool_links"
    /\ output' = extract_tool_links(input)
    /\ pc' = "extract_tool_links_returned"
    /\ UNCHANGED <<run_vars, input>>

NextLinks == CallExtractToolLinks

SpecLinks == InitLinks /\ [][NextLinks]_vars

\* u stands in the text between "(" and ")", starts with a scheme followed
\* by at least one character, and holds neither whitespace nor ")".
IsParenthesizedUrl(text, u) ==
    /\ Len(u) >= 2 /\ u[1] \in Schemes
    /\ \A k \in 2..Len(u) : u[k] # SP /\ u[k] # RP
    /\ \E p \in 1..Len(text) :
          /\ p + Len(u) + 1 <= Len(text)
          /\ text[p] = LP /\ text[p + Len(u) + 1] = RP
          /\ \A k \in 1..Len(u) : text[p + k] = u[k]

NameChars == {"|", "-", EMDASH, SP, "a"}

AcmeTitle == <<"a", SP, EMDASH, SP, "a", "b">>

Titles == SeqsUpTo(NameChars, MaxNameLen) \cup {AcmeTitle, <<"a", "-", "b", "|", "a">>}

OgValues == {None, Some(<<>>), Some(<<"b", SP, "-", "|", SP, "a">>), Some(<<"|", SP, "|">>)}

NameUrls == {UrlA, UrlB, UrlC, <<HTTPS, WWW>>}

\* The page carrying the given title and og tags.
page_of(in) ==
    <<TitleEl(in.title)>>
    \o (IF in.og_title = None THEN <<>> ELSE <<MetaEl("og:title", in.og_title[1])>>)
    \o (IF in.og_site_name = None THEN <<>> ELSE <<MetaEl("og:site_name", in.og_site_name[1])>>)

InitName ==
    /\ pc = "call_guess"
    /\ input \in [title : Titles, og_title : OgValues, og_site_name : OgValues, url : NameUrls]
    /\ output = <<>>
    /\ Idle

CallGuess ==
    /\ pc = "call_guess"
    /\ output' = guess_product_name_and_company(page_of(input), input.url)
    /\ pc' = "guess_returned"
    /\ UNCHANGED <<run_vars, input>>

NextName == CallGuess

SpecName == InitName /\ [][NextName]_vars

\* The candidates of lines 66-67.
OptStr(o) == IF o = None THEN <<>> ELSE strip(o[1])
product_candidate(in) == Or(OptStr(in.og_title), strip(in.title))
company_candidate(in) == Or(OptStr(in.og_site_name), strip(in.title))

HasAnySep(c) == \E k \in 1..Len(SEPS) : HasTok(c, SEPS[k])

\* The first separator, in the fixed priority order, the string contains.
FirstSep(c) == SEPS[FirstIdx({k \in 1..Len(SEPS) : HasTok(c, SEPS[k])})]

\* c[a..b] is a segment of c split on s: a maximal stretch without s.
IsSegment(c, s, a, b) ==
    /\ a <= b
    /\ \A k \in a..b : c[k] # s
    /\ (a = 1 \/ c[a - 1] = s) /\ (b = Len(c) \/ c[b + 1] = s)

\* p is the first (last) trimmed non-empty segment of c split on s.
IsFirstSegment(c, s, p) ==
    \E a, b \in 1..Len(c) :
        /\ IsSegment(c, s, a, b) /\ strip(SubSeq(c, a, b)) = p /\ p # <<>>
        /\ \A k \in 1..(a - 1) : c[k] = s \/ c[k] = SP

IsLastSegment(c, s, p) ==
    \E a, b \in 1..Len(c) :
        /\ IsSegment(c, s, a, b) /\ strip(SubSeq(c, a, b)) = p /\ p # <<>>
        /\ \A k \in (b + 1)..Len(c) : c[k] = s \/ c[k] = SP

\* Something besides the separator s and whitespace stands in c.
HasSegment(c, s) == \E k \in 1..Len(c) : c[k] # s /\ c[k] # SP

StripLeadingWww(host) == IF host # <<>> /\ Head(host) = WWW THEN Tail(host) ELSE host

\* C9: when company_name is empty after lookup and cleanup it becomes the
\* host of the URL with only a leading "www." removed, and a product_name
\* still empty becomes that company_name, so product_name is empty only if
\* company_name is.
C9_CompanyFallsBackToHost ==
    pc = "guess_returned" =>
        /\ keep_last_chunk(company_candidate(input)) = <<>> =>
              output.company_name = StripLeadingWww(netloc(input.url))
        /\ keep_first_chunk(product_candidate(input)) = <<>> =>
              output.product_name = output.company_name
        /\ output.product_name = <<>> => output.company_name = <<>>

\* C10 as stated: every candidate containing a separator is split on the
\* first separator it contains; product_name is the first and company_name
\* the last trimmed non-empty segment, neither containing that separator.
C10_SplitOnFirstSeparator ==
    pc = "guess_returned" =>
        LET c == product_candidate(input)
            d == company_candidate(input)
        IN  /\ HasAnySep(c) => /\ IsFirstSegment(c, FirstSep(c), output.product_name)
                               /\ ~HasTok(output.product_name, FirstSep(c))
            /\ HasAnySep(d) => /\ IsLastSegment(d, FirstSep(d), output.company_name)
                               /\ ~HasTok(output.company_name, FirstSep(d))

\* C10 amended: the split happens when the candidate holds, besides its
\* first separator and whitespace, some other character; a candidate made
\* only of one separator glyph and whitespace is returned as it is.
C10_SplitOnFirstSeparatorWithSegment ==
    pc = "guess_returned" =>
        LET c == product_candidate(input)
            d == company_candidate(input)
        IN  /\ (HasAnySep(c) /\ HasSegment(c, FirstSep(c))) =>
                  /\ IsFirstSegment(c, FirstSep(c), output.product_name)
                  /\ ~HasTok(output.product_name, FirstSep(c))
            /\ (HasAnySep(c) /\ ~HasSegment(c, FirstSep(c))) => output.product_name = c
            /\ (HasAnySep(d) /\ HasSegment(d, FirstSep(d))) =>
                  /\ IsLastSegment(d, FirstSep(d), output.company_name)
                  /\ ~HasTok(output.company_name, FirstSep(d))
            /\ (HasAnySep(d) /\ ~HasSegment(d, FirstSep(d))) => output.company_name = d

C10_Witness ==
    /\ pc = "guess_returned"
    /\ input.title = AcmeTitle /\ input.og_title = None /\ input.og_site_name = None
    /\ output = [product_name |-> <<"a">>, company_name |-> <<"a", "b">>]

====
